---------------------------- MODULE Spec2Model ----------------------------
(***************************************************************************)
(* Feed reconciliation of the social-feed client: the Dashboard screen     *)
(* (src/src/pages/Dashboard.jsx) and the Profile screen                    *)
(* (src/src/pages/Profile.jsx).  One behaviour follows one screen instance *)
(* from construction through mount, pull-fetches, push events, retry and   *)
(* redirect timers, to unmount.                                            *)
(* The post card and the post form (src/src/components) act on the list of *)
(* that screen; the navigation and session specifications follow the       *)
(* screens one after the other, with logout, login and the router of       *)
(* src/src/App.jsx.                                                        *)
(*                                                                         *)
(* A post is a record [id, ver]: id is the _id (0 stands for a missing     *)
(* _id), ver tells an edited record from the original.  The owner of a     *)
(* post (post.user.uid) is fixed per identifier, see Owner.  Identifiers   *)
(* grow with the creation time, so "newest-first" is descending id.        *)
(***************************************************************************)
EXTENDS Integers, Sequences, FiniteSets, TLC

\* ------------------------------------------------------------ bounds
\* identifiers 1..NumIds exist on the server
NumIds == 11
\* longest short page (fewer than PageSize posts) the server returns
MaxShort == 2
\* the page number is advanced up to MaxPage
MaxPage == 2
\* the retry counter is counted up to MaxRetry
MaxRetry == 2
\* retry timers pending at once
MaxTimers == 2
\* length of the list the push scenario starts from
ScenarioLen == 3
\* POST /posts requests of the PostForm outstanding at once
MaxCalls == 1
\* the retry counter is counted up to MaxAttempts where the backoff is followed
MaxAttempts == 6

\* ------------------------------------------------------------ constants
\* limit=10 of the request, and the end-of-feed test newPosts.length >= 10
PageSize == 10
\* Math.min(1000 * Math.pow(2, retryCount), 10000)
BaseDelay == 1000
MaxDelay == 10000

\* setTimeout(() => { window.location.href = "/login"; }, 2000)
RedirectDelay == 2000

Null == "null"
Me == "me"
Other == "other"

VARIABLES
    screen,         \* which screen this behaviour follows: "dashboard" | "profile"
    phase,          \* "constructed" | "mounted" | "unmounted"
    location,       \* "app" | "/login" (window.location.href)
    authToken,      \* localStorage has "authToken"
    redirectPending,\* a setTimeout(() => location.href = "/login", 2000) is pending
    firebaseUser,   \* auth has a signed-in user (the user of App)
    \* Dashboard state (useState)
    posts, page, loading, hasMore, initialLoad, error, retryCount,
    \* Dashboard refs
    isMountedRef, fetchingRef,
    requests,       \* outstanding GET /posts requests of the Dashboard
    retryTimers,    \* number of pending timers of handleRetry
    subscribed,     \* the screen's three handlers are registered on the socket
    deletedInFlight,\* ids deleted by push while the fetch of a page advance is outstanding
    \* Profile state
    user, profilePosts, profileLoading, profileError, isMounted, stage,
    \* PostCard state of the card of post CardId, and the POST /posts requests
    \* of the PostForm that are outstanding
    isEditing, isSaving, isDeleting, creating,
    \* the push channel: the module-level socket of Dashboard.jsx and of
    \* Profile.jsx (0: null, otherwise the connection it refers to), the
    \* connections that are open, the number of io() calls so far, and the
    \* registered post:* handler triples as [conn, of]
    dashboardSocket, profileSocket, connections, created, handlers,
    beforeLogout,   \* history: the connections created before the last logout
    lastOp          \* the handler that ran last, with its inputs

dashVars == <<posts, page, loading, hasMore, initialLoad, error, retryCount,
              isMountedRef, fetchingRef, requests, retryTimers, deletedInFlight>>
profVars == <<user, profilePosts, profileLoading, profileError, isMounted, stage>>
cardVars == <<isEditing, isSaving, isDeleting, creating>>
chanVars == <<dashboardSocket, profileSocket, connections, created, handlers,
              beforeLogout>>
vars == <<screen, phase, location, authToken, redirectPending, firebaseUser, subscribed,
          dashVars, profVars, cardVars, chanVars, lastOp>>

\* the list of the screen this behaviour follows
List == IF screen = "dashboard" THEN posts ELSE profilePosts

\* ------------------------------------------------------------ data
Ids == 1..NumIds
\* push events of the feed concern the oldest and the newest post
PushIds == {1, NumIds}

\* post.user.uid: the owner of a post never changes; the newest post is
\* another user's, the others are the current user's
Owner(id) == IF id = NumIds THEN Other ELSE Me

\* k+n-1, ..., k: n posts, newest first, as the server returns them
Window(k, n) == [i \in 1..n |-> [id |-> k + n - i, ver |-> 0]]

\* res.data.posts || [] of GET /posts?page&limit=10: a full page, of the
\* newest or of the oldest posts, or a shorter one, the last page, which holds
\* the oldest posts
ServerPages ==
    {Window(k, PageSize) : k \in {1, NumIds - PageSize + 1}}
    \cup {Window(1, n) : n \in 0..MaxShort}

\* res.data.posts || [] of GET /posts?userId=uid: the current user's posts
UserPages == {Window(1, n) : n \in 0..MaxShort}

\* resUser.data.user of GET /users/me
Users == {Null, Me}

IdsOf(list) == {list[i].id : i \in DOMAIN list}
HasId(list, id) == \E i \in DOMAIN list : list[i].id = id
Count(list, id) == Cardinality({i \in DOMAIN list : list[i].id = id})
NoDup(list) == \A i, j \in DOMAIN list : list[i].id = list[j].id => i = j

\* push payloads: a Post, a bare identifier, null, or an object without _id
PayloadsOf(ids) ==
    {[kind |-> "post", id |-> i, ver |-> v, uid |-> Owner(i)] : i \in ids, v \in {0, 1}}
    \cup {[kind |-> "id", id |-> i, ver |-> 0, uid |-> Null] : i \in ids}
    \cup {[kind |-> "null", id |-> 0, ver |-> 0, uid |-> Null]}
    \cup {[kind |-> "noid", id |-> 0, ver |-> 0, uid |-> u] : u \in {Me, Other}}

\* post:created carries the record as created, post:updated the edited one
Created(payloads) == {p \in payloads : p.ver = 0}
Updated(payloads) == {p \in payloads : p.kind = "post" => p.ver = 1}
Payloads == PayloadsOf(PushIds)

PostOf(payload) == [id |-> payload.id, ver |-> payload.ver]

\* err of a failed request: err.response?.status and the message
Errors == {"network", "http500", "http401", "http403"}
\* the message read from the response alone: none when there is no response
ErrorMessage_ResponseOnly(err) == IF err = "network" THEN Null ELSE err

\* err.response?.data?.message || err.message || "Failed to load posts"
ErrorMessage(err) == err

\* the test for status 401 alone
IsAuthError_401Only(err) == err = "http401"

\* the test for any response with an error status
IsAuthError_AnyStatus(err) == err \in {"http500", "http401", "http403"}

\* err.response?.status === 401 || err.response?.status === 403
IsAuthError(err) == err \in {"http401", "http403"}

\* the label of a step: the handler that ran, the identifier it acted on (id,
\* 0 when it had none) and the length of the response it applied or the
\* delay of the timer it set (n)
Op(op, id, n) == [op |-> op, id |-> id, n |-> n]
NoOp == Op("none", 0, 0)

\* ------------------------------------------------------------ reconciliation
\* the merge without the filter
MergePage_NoFilter(prev, newPosts) == prev \o newPosts

\* setPosts(prev => [...prev, ...newPosts.filter(p => !existingIds.has(p._id))])
MergePage(prev, newPosts) ==
    prev \o SelectSeq(newPosts, LAMBDA p : ~HasId(prev, p.id))

\* if (shouldAppend && pageNum > 1)
Appends(req) == req.shouldAppend /\ req.pageNum > 1

\* a fetch that merges whatever it was asked for
ApplyFetched_AlwaysMerge(prev, req, newPosts) == MergePage(prev, newPosts)

\* the posts a successful fetch leaves in the list
ApplyFetched(prev, req, newPosts) ==
    IF Appends(req) THEN MergePage(prev, newPosts) ELSE newPosts

\* the insert without the check for an existing identifier
ApplyCreated_Always(prev, post) == <<post>> \o prev

\* setPosts(prev => prev.some(p => p._id === post._id) ? prev : [post, ...prev])
ApplyCreated(prev, post) ==
    IF HasId(prev, post.id) THEN prev ELSE <<post>> \o prev

\* an update that inserts the record when no entry matches
ApplyUpdated_Upsert(prev, post) ==
    IF HasId(prev, post.id)
    THEN [i \in DOMAIN prev |-> IF prev[i].id = post.id THEN post ELSE prev[i]]
    ELSE <<post>> \o prev

\* setPosts(prev => prev.map(p => p._id === updatedPost._id ? updatedPost : p))
ApplyUpdated(prev, post) ==
    [i \in DOMAIN prev |-> IF prev[i].id = post.id THEN post ELSE prev[i]]

\* the filter with the comparison inverted
ApplyDeleted_Inverted(prev, id) ==
    SelectSeq(prev, LAMBDA p : p.id = id)

\* setPosts(prev => prev.filter(p => p._id !== postId))
ApplyDeleted(prev, id) ==
    SelectSeq(prev, LAMBDA p : p.id # id)

\* the end-of-feed test taken as "the page is not empty"
NextHasMore_NonEmpty(newPosts) == Len(newPosts) > 0

\* setHasMore(newPosts.length >= 10)
NextHasMore(newPosts) == Len(newPosts) >= PageSize

\* the backoff without its cap
RetryDelay_Uncapped(n) == BaseDelay * (2 ^ n)

\* Math.min(1000 * Math.pow(2, retryCount), 10000)
RetryDelay(n) ==
    IF BaseDelay * (2 ^ n) < MaxDelay THEN BaseDelay * (2 ^ n) ELSE MaxDelay

\* ------------------------------------------------------------ Dashboard
\* fetchPosts without its guard
FetchInProgress_Never == FALSE

\* if (fetchingRef.current) return;
FetchInProgress == fetchingRef

\* fetchPosts(pageNum, shouldAppend) up to the await; the state setters of an
\* unmounted component do nothing
FetchPosts(pageNum, shouldAppend, by) ==
    IF FetchInProgress
    THEN UNCHANGED <<fetchingRef, loading, error, requests, deletedInFlight>>
    ELSE /\ fetchingRef' = TRUE
         /\ loading' = IF phase # "unmounted" THEN TRUE ELSE loading
         /\ error' = IF phase # "unmounted" THEN Null ELSE error
         /\ requests' = Append(requests,
                [pageNum |-> pageNum, shouldAppend |-> shouldAppend, by |-> by])
         /\ deletedInFlight' = {}

Live == location = "app"

\* the request at index i of requests is answered; it leaves the list
Remove(seq, i) == SubSeq(seq, 1, i - 1) \o SubSeq(seq, i + 1, Len(seq))

\* the module-level socket of the screen's file
SocketOf(of) == IF of = "dashboard" THEN dashboardSocket ELSE profileSocket

\* socketInstance.off(...) that removes nothing
Unsubscribe_Nothing(of) == UNCHANGED chanVars

\* the cleanup of the socket effect: socketInstance.off for the three
\* handlers of the screen, on the connection the effect got
Unsubscribe(of) ==
    LET mine == {i \in DOMAIN handlers : handlers[i] = [conn |-> SocketOf(of), of |-> of]}
    IN  /\ handlers' = IF mine = {} THEN handlers
                       ELSE Remove(handlers, CHOOSE i \in mine : \A j \in mine : i <= j)
        /\ UNCHANGED <<dashboardSocket, profileSocket, connections, created, beforeLogout>>

\* the socket effect: initializeSocket(), which calls io(apiUrl) when the
\* module's socket is null (VITE_API_URL is defined), and socketInstance.on
\* for the three handlers of the screen
Subscribe(of) ==
    LET conn == IF SocketOf(of) = 0 THEN created + 1 ELSE SocketOf(of)
    IN  /\ created' = IF SocketOf(of) = 0 THEN created + 1 ELSE created
        /\ connections' = IF SocketOf(of) = 0 THEN connections \cup {conn} ELSE connections
        /\ IF of = "dashboard"
           THEN dashboardSocket' = conn /\ UNCHANGED profileSocket
           ELSE profileSocket' = conn /\ UNCHANGED dashboardSocket
        /\ handlers' = Append(handlers, [conn |-> conn, of |-> of])
        /\ UNCHANGED beforeLogout

\* the document is unloaded: its modules, connections and handlers are gone
Unload ==
    /\ dashboardSocket' = 0 /\ profileSocket' = 0
    /\ connections' = {} /\ handlers' = <<>>
    /\ UNCHANGED created

\* the mount effects of Dashboard: initial fetch, socket handlers, isMountedRef
DashboardMount ==
    /\ Live /\ screen = "dashboard" /\ phase = "constructed"
    /\ phase' = "mounted"
    /\ isMountedRef' = TRUE
    /\ subscribed' = TRUE
    /\ FetchPosts(1, FALSE, "initial")
    /\ Subscribe("dashboard")
    /\ lastOp' = Op("mount", 0, 0)
    /\ UNCHANGED <<firebaseUser, screen, location, authToken, redirectPending, posts, page, hasMore,
                   initialLoad, retryCount, retryTimers, profVars, cardVars>>

\* GET /posts answered with newPosts: the try block after the await, and finally
FetchSucceeds(i, newPosts) ==
    /\ Live /\ screen = "dashboard" /\ i \in DOMAIN requests
    /\ requests' = Remove(requests, i)
    /\ lastOp' = IF ~isMountedRef THEN Op("dropped", 0, 0)
                 ELSE Op(IF Appends(requests[i]) THEN "merged" ELSE "replaced",
                         0, Len(newPosts))
    /\ IF isMountedRef
       THEN /\ posts' = ApplyFetched(posts, requests[i], newPosts)
            /\ hasMore' = NextHasMore(newPosts)
            /\ initialLoad' = FALSE
            /\ retryCount' = 0
            /\ loading' = FALSE
            /\ fetchingRef' = FALSE
       ELSE UNCHANGED <<posts, hasMore, initialLoad, retryCount, loading, fetchingRef>>
    /\ deletedInFlight' = {}
    /\ UNCHANGED <<firebaseUser, screen, phase, location, authToken, redirectPending, page, error,
                   isMountedRef, retryTimers, subscribed, profVars, cardVars, chanVars>>

\* GET /posts fails with err: the catch block, and finally
FetchFails(i, err) ==
    /\ Live /\ screen = "dashboard" /\ i \in DOMAIN requests
    /\ requests' = Remove(requests, i)
    /\ lastOp' = IF ~isMountedRef THEN Op("dropped", 0, 0)
                 ELSE Op("failed", 0, IF IsAuthError(err) THEN RedirectDelay ELSE 0)
    /\ IF isMountedRef
       THEN /\ error' = ErrorMessage(err)
            /\ hasMore' = FALSE
            /\ IF IsAuthError(err)
               THEN /\ authToken' = FALSE
                    /\ redirectPending' = TRUE
               ELSE UNCHANGED <<authToken, redirectPending>>
            /\ loading' = FALSE
            /\ fetchingRef' = FALSE
       ELSE UNCHANGED <<error, hasMore, authToken, redirectPending, loading, fetchingRef>>
    /\ deletedInFlight' = {}
    /\ UNCHANGED <<firebaseUser, screen, phase, location, posts, page, initialLoad, retryCount,
                   isMountedRef, retryTimers, subscribed, profVars, cardVars, chanVars>>

\* if (loading || !hasMore || initialLoad || !lastPostRef.current) return;
\* otherwise an observer watches the last rendered post
ObserverActive == ~loading /\ hasMore /\ ~initialLoad /\ Len(posts) > 0

\* entries[0].isIntersecting && hasMore && !loading && !fetchingRef.current
CallbackAdvances == hasMore /\ ~loading /\ ~fetchingRef

\* a page advance without the guards of the effect and of the callback
LastPostVisible_Unguarded ==
    /\ Live /\ screen = "dashboard" /\ phase = "mounted"
    /\ page < MaxPage
    /\ page' = page + 1
    /\ FetchPosts(page + 1, TRUE, "page")
    /\ lastOp' = Op("visible", 0, 0)
    /\ UNCHANGED <<firebaseUser, screen, phase, location, authToken, redirectPending, posts, hasMore,
                   initialLoad, retryCount, isMountedRef, retryTimers, subscribed,
                   profVars, cardVars, chanVars>>

\* the last post becomes visible: setPage(prev => prev + 1), and the effect on
\* [page] calls fetchPosts(page, true) because page > 1
LastPostVisible ==
    /\ Live /\ screen = "dashboard" /\ phase = "mounted"
    /\ ObserverActive
    /\ CallbackAdvances
    /\ page < MaxPage
    /\ page' = page + 1
    /\ FetchPosts(page + 1, TRUE, "page")
    /\ lastOp' = Op("visible", 0, 0)
    /\ UNCHANGED <<firebaseUser, screen, phase, location, authToken, redirectPending, posts, hasMore,
                   initialLoad, retryCount, isMountedRef, retryTimers, subscribed, profVars, cardVars, chanVars>>

\* the error screen: if (error && posts.length === 0 && !loading)
ErrorScreen == error # Null /\ Len(posts) = 0 /\ ~loading

\* both retry buttons are rendered only with an error, and disabled while loading
RetryOffered == error # Null /\ ~loading

\* handleRetry up to the setTimeout, with the counter below maxRetry and fewer
\* than maxTimers timers pending
HandleRetryWithin(maxRetry, maxTimers) ==
    /\ Live /\ screen = "dashboard" /\ phase = "mounted"
    /\ RetryOffered
    /\ retryCount < maxRetry
    /\ retryTimers < maxTimers
    /\ retryTimers' = retryTimers + 1
    /\ retryCount' = retryCount + 1
    /\ lastOp' = Op("retry", 0, RetryDelay(retryCount))
    /\ UNCHANGED <<firebaseUser, screen, phase, location, authToken, redirectPending, posts, page,
                   loading, hasMore, initialLoad, error, isMountedRef, fetchingRef,
                   requests, subscribed, deletedInFlight, profVars, cardVars, chanVars>>

HandleRetry == HandleRetryWithin(MaxRetry, MaxTimers)

\* the timer of handleRetry fires: setPage(1); setHasMore(true); fetchPosts(1, false)
RetryTimerFires ==
    /\ Live /\ screen = "dashboard"
    /\ retryTimers > 0
    /\ retryTimers' = retryTimers - 1
    /\ page' = IF phase = "mounted" THEN 1 ELSE page
    /\ hasMore' = IF phase = "mounted" THEN TRUE ELSE hasMore
    /\ FetchPosts(1, FALSE, "retry")
    /\ lastOp' = Op("retryTimer", 0, 0)
    /\ UNCHANGED <<firebaseUser, screen, phase, location, authToken, redirectPending, posts,
                   initialLoad, retryCount, isMountedRef, subscribed, profVars, cardVars, chanVars>>

\* !post || !post._id
InvalidPost(payload) == payload.kind # "post"

\* socket "post:created" on the Dashboard
DashboardPostCreated(payload) ==
    /\ Live /\ screen = "dashboard" /\ subscribed
    /\ posts' = IF InvalidPost(payload) THEN posts ELSE ApplyCreated(posts, PostOf(payload))
    /\ lastOp' = Op("created", IF InvalidPost(payload) THEN 0 ELSE payload.id, 0)
    /\ UNCHANGED <<firebaseUser, screen, phase, location, authToken, redirectPending, page, loading,
                   hasMore, initialLoad, error, retryCount, isMountedRef, fetchingRef,
                   requests, retryTimers, subscribed, deletedInFlight, profVars, cardVars, chanVars>>

\* socket "post:updated" on the Dashboard
DashboardPostUpdated(payload) ==
    /\ Live /\ screen = "dashboard" /\ subscribed
    /\ posts' = IF InvalidPost(payload) THEN posts ELSE ApplyUpdated(posts, PostOf(payload))
    /\ lastOp' = Op("updated", IF InvalidPost(payload) THEN 0 ELSE payload.id, 0)
    /\ UNCHANGED <<firebaseUser, screen, phase, location, authToken, redirectPending, page, loading,
                   hasMore, initialLoad, error, retryCount, isMountedRef, fetchingRef,
                   requests, retryTimers, subscribed, deletedInFlight, profVars, cardVars, chanVars>>

\* const postId = data?._id || data: the identifier of a Post or the bare
\* identifier; null has none, and an object without _id is compared itself
\* (0: it equals no identifier)
DeletedId(payload) == IF payload.kind \in {"post", "id"} THEN payload.id ELSE 0

\* if (!postId) return
InvalidDeletion(payload) == payload.kind = "null"

\* socket "post:deleted" on the Dashboard
DashboardPostDeleted(payload) ==
    /\ Live /\ screen = "dashboard" /\ subscribed
    /\ posts' = IF InvalidDeletion(payload) THEN posts
                ELSE ApplyDeleted(posts, DeletedId(payload))
    /\ deletedInFlight' =
          IF /\ \E i \in DOMAIN requests : Appends(requests[i])
             /\ ~InvalidDeletion(payload) /\ DeletedId(payload) # 0
          THEN deletedInFlight \cup {DeletedId(payload)} ELSE deletedInFlight
    /\ lastOp' = Op("deleted", DeletedId(payload), 0)
    /\ UNCHANGED <<firebaseUser, screen, phase, location, authToken, redirectPending, page, loading,
                   hasMore, initialLoad, error, retryCount, isMountedRef, fetchingRef,
                   requests, retryTimers, subscribed, profVars, cardVars, chanVars>>

\* an unmount whose cleanup leaves isMountedRef as it is
DashboardUnmount_KeepsRef ==
    /\ Live /\ screen = "dashboard" /\ phase = "mounted"
    /\ phase' = "unmounted"
    /\ subscribed' = FALSE
    /\ Unsubscribe("dashboard")
    /\ lastOp' = Op("unmount", 0, 0)
    /\ UNCHANGED <<firebaseUser, screen, location, authToken, redirectPending, posts, page, loading,
                   hasMore, initialLoad, error, retryCount, isMountedRef, fetchingRef,
                   requests, retryTimers, deletedInFlight, profVars, cardVars>>

\* the cleanups of the Dashboard effects: handlers off, isMountedRef false,
\* observer disconnected
DashboardUnmount ==
    /\ Live /\ screen = "dashboard" /\ phase = "mounted"
    /\ phase' = "unmounted"
    /\ isMountedRef' = FALSE
    /\ subscribed' = FALSE
    /\ Unsubscribe("dashboard")
    /\ lastOp' = Op("unmount", 0, 0)
    /\ UNCHANGED <<firebaseUser, screen, location, authToken, redirectPending, posts, page, loading,
                   hasMore, initialLoad, error, retryCount, fetchingRef, requests,
                   retryTimers, deletedInFlight, profVars, cardVars>>

\* ------------------------------------------------------------ Profile
\* the catch and finally blocks of fetchProfile
ProfileCatch(err, mounted) ==
    /\ stage' = "done"
    /\ IF mounted
       THEN /\ profileError' = ErrorMessage(err)
            /\ IF IsAuthError(err)
               THEN authToken' = FALSE /\ redirectPending' = TRUE
               ELSE UNCHANGED <<authToken, redirectPending>>
            /\ profileLoading' = FALSE
       ELSE UNCHANGED <<profileError, authToken, redirectPending, profileLoading>>

\* the first effect of Profile: fetchProfile up to its first await, or to the
\* end when no token is cached
ProfileMount ==
    /\ Live /\ screen = "profile" /\ phase = "constructed"
    /\ phase' = "mounted"
    /\ isMounted' = TRUE
    /\ IF ~authToken
       THEN ProfileCatch("No authentication token found", TRUE)
       ELSE /\ profileLoading' = TRUE
            /\ profileError' = Null
            /\ stage' = "users_me"
            /\ UNCHANGED <<authToken, redirectPending>>
    /\ lastOp' = Op("mount", 0, 0)
    /\ UNCHANGED <<firebaseUser, screen, location, subscribed, dashVars, cardVars, chanVars, user, profilePosts>>

\* GET /users/me answered with currentUser; setUser runs the socket effect
UserSucceeds(currentUser) ==
    /\ Live /\ screen = "profile" /\ stage = "users_me"
    /\ lastOp' = Op(IF ~isMounted THEN "dropped" ELSE "user", 0, 0)
    /\ IF ~isMounted
       THEN /\ stage' = "done"
            /\ UNCHANGED <<user, subscribed, profileError, profileLoading, authToken,
                           redirectPending, chanVars>>
       ELSE IF currentUser = Null
       THEN /\ ProfileCatch("User data not found", TRUE)
            /\ UNCHANGED <<user, subscribed, chanVars>>
       ELSE /\ user' = currentUser
            /\ subscribed' = TRUE
            /\ Subscribe("profile")
            /\ stage' = "posts"
            /\ UNCHANGED <<profileError, profileLoading, authToken, redirectPending>>
    /\ UNCHANGED <<firebaseUser, screen, phase, location, dashVars, cardVars, profilePosts, isMounted>>

\* GET /posts?userId answered with userPosts
UserPostsSucceed(userPosts) ==
    /\ Live /\ screen = "profile" /\ stage = "posts"
    /\ stage' = "done"
    /\ lastOp' = IF ~isMounted THEN Op("dropped", 0, 0)
                 ELSE Op("replaced", 0, Len(userPosts))
    /\ IF isMounted
       THEN profilePosts' = userPosts /\ profileLoading' = FALSE
       ELSE UNCHANGED <<profilePosts, profileLoading>>
    /\ UNCHANGED <<firebaseUser, screen, phase, location, authToken, redirectPending, subscribed,
                   dashVars, cardVars, chanVars, user, profileError, isMounted>>

\* GET /users/me or GET /posts?userId fails with err
ProfileFetchFails(err) ==
    /\ Live /\ screen = "profile" /\ stage \in {"users_me", "posts"}
    /\ lastOp' = IF ~isMounted THEN Op("dropped", 0, 0)
                 ELSE Op("failed", 0, IF IsAuthError(err) THEN RedirectDelay ELSE 0)
    /\ ProfileCatch(err, isMounted)
    /\ UNCHANGED <<firebaseUser, screen, phase, location, subscribed, dashVars, cardVars, chanVars, user, profilePosts,
                   isMounted>>

\* post.user?.uid === user.uid; reading .user of null throws
Owned(payload) == payload.uid = user
Throws(payload) == payload.kind = "null"

\* socket "post:created" on the Profile
ProfilePostCreated(payload) ==
    /\ Live /\ screen = "profile" /\ subscribed
    /\ profilePosts' = IF ~Throws(payload) /\ Owned(payload)
                       THEN ApplyCreated(profilePosts, PostOf(payload))
                       ELSE profilePosts
    /\ lastOp' = Op(IF Throws(payload) THEN "threw" ELSE "created",
                    IF Owned(payload) THEN payload.id ELSE 0, 0)
    /\ UNCHANGED <<firebaseUser, screen, phase, location, authToken, redirectPending, subscribed,
                   dashVars, cardVars, chanVars, user, profileLoading, profileError, isMounted, stage>>

\* socket "post:updated" on the Profile
ProfilePostUpdated(payload) ==
    /\ Live /\ screen = "profile" /\ subscribed
    /\ profilePosts' = IF ~Throws(payload) /\ Owned(payload)
                       THEN ApplyUpdated(profilePosts, PostOf(payload))
                       ELSE profilePosts
    /\ lastOp' = Op(IF Throws(payload) THEN "threw" ELSE "updated",
                    IF Owned(payload) THEN payload.id ELSE 0, 0)
    /\ UNCHANGED <<firebaseUser, screen, phase, location, authToken, redirectPending, subscribed,
                   dashVars, cardVars, chanVars, user, profileLoading, profileError, isMounted, stage>>

\* ({ _id }) => ...: the _id of a Post; a bare identifier has no _id property
\* (0), and destructuring null throws
ProfileDeletedId(payload) == IF payload.kind = "post" THEN payload.id ELSE 0

\* socket "post:deleted" on the Profile
ProfilePostDeleted(payload) ==
    /\ Live /\ screen = "profile" /\ subscribed
    /\ profilePosts' = IF Throws(payload) THEN profilePosts
                       ELSE ApplyDeleted(profilePosts, ProfileDeletedId(payload))
    /\ lastOp' = Op(IF Throws(payload) THEN "threw" ELSE "deleted",
                    ProfileDeletedId(payload), 0)
    /\ UNCHANGED <<firebaseUser, screen, phase, location, authToken, redirectPending, subscribed,
                   dashVars, cardVars, chanVars, user, profileLoading, profileError, isMounted, stage>>

\* the cleanups of the Profile effects: isMounted = false, handlers off
ProfileUnmount ==
    /\ Live /\ screen = "profile" /\ phase = "mounted"
    /\ phase' = "unmounted"
    /\ isMounted' = FALSE
    /\ subscribed' = FALSE
    /\ Unsubscribe("profile")
    /\ lastOp' = Op("unmount", 0, 0)
    /\ UNCHANGED <<firebaseUser, screen, location, authToken, redirectPending, dashVars, cardVars, user,
                   profilePosts, profileLoading, profileError, stage>>

\* window.location.href = "/login": the document is unloaded, and with it the
\* outstanding requests, the timers and the socket handlers
RedirectToLogin ==
    /\ Live /\ redirectPending
    /\ location' = "/login"
    /\ redirectPending' = FALSE
    /\ requests' = <<>>
    /\ retryTimers' = 0
    /\ subscribed' = FALSE
    /\ stage' = IF stage \in {"users_me", "posts"} THEN "done" ELSE stage
    /\ lastOp' = Op("redirect", 0, 0)
    /\ deletedInFlight' = {}
    /\ Unload
    /\ UNCHANGED beforeLogout
    /\ UNCHANGED <<firebaseUser, screen, phase, authToken, posts, page, loading, hasMore, initialLoad,
                   error, retryCount, isMountedRef, fetchingRef,
                   user, profilePosts, profileLoading, profileError, isMounted,
                   cardVars>>

\* ------------------------------------------------------------ PostCard, PostForm
\* the post whose card is followed: the oldest post, one of the current user's
CardId == 1

\* a request fails with a status, or without a response: network error, timeout
AllErrors == Errors \cup {"timeout"}

\* editContent.trim() at the click on Save: empty, equal to post.content,
\* longer than 5000 characters, or a new text
Contents == {"empty", "same", "long", "new"}
\* !trimmedContent || trimmedContent === post.content
Unedited(content) == content \in {"empty", "same"}
\* trimmedContent.length > 5000
TooLong(content) == content = "long"

\* the screen renders its list: the Dashboard unless the error screen stands
\* in, the Profile once it has loaded without an error
ListShown ==
    /\ Live /\ phase = "mounted"
    /\ IF screen = "dashboard" THEN ~ErrorScreen
       ELSE ~profileLoading /\ profileError = Null /\ user # Null

\* isOwner && the card of post CardId is rendered
CardShown == ListShown /\ HasId(List, CardId) /\ Owner(CardId) = Me

\* setPosts of the screen's own list; nothing on an unmounted screen
SetList(new) ==
    IF phase # "mounted" THEN UNCHANGED <<posts, profilePosts>>
    ELSE IF screen = "dashboard" THEN posts' = new /\ UNCHANGED profilePosts
    ELSE profilePosts' = new /\ UNCHANGED posts

\* what the card and form handlers leave alone
CardFrame ==
    UNCHANGED <<firebaseUser, screen, phase, location, authToken, redirectPending, subscribed,
                page, loading, hasMore, initialLoad, error, retryCount, isMountedRef,
                fetchingRef, requests, retryTimers, deletedInFlight,
                user, profileLoading, profileError, isMounted, stage, chanVars>>

\* the menu entry Edit: setIsEditing(true)
StartEdit ==
    /\ CardShown /\ ~isDeleting /\ ~isEditing
    /\ isEditing' = TRUE
    /\ lastOp' = Op("startEdit", CardId, 0)
    /\ UNCHANGED <<posts, profilePosts, isSaving, isDeleting, creating>>
    /\ CardFrame

\* handleEdit up to the await of axios.put, or to its end when it returns or
\* throws before
HandleEdit(content) ==
    /\ CardShown /\ isEditing /\ ~isSaving
    /\ IF Unedited(content)
       THEN /\ isEditing' = FALSE /\ UNCHANGED isSaving
            /\ lastOp' = Op("editSkipped", CardId, 0)
       ELSE IF TooLong(content)
       THEN /\ UNCHANGED <<isEditing, isSaving>>
            /\ lastOp' = Op("editRejected", CardId, 0)
       ELSE IF ~authToken
       THEN /\ UNCHANGED <<isEditing, isSaving>>
            /\ lastOp' = Op("editFailed", CardId, 0)
       ELSE /\ isSaving' = TRUE /\ UNCHANGED isEditing
            /\ lastOp' = Op("put", CardId, 0)
    /\ UNCHANGED <<posts, profilePosts, isDeleting, creating>>
    /\ CardFrame

\* PUT /posts/:id answered: onPostUpdated(res.data), setIsEditing(false), finally
EditSucceeds ==
    /\ Live /\ isSaving
    /\ SetList(ApplyUpdated(List, [id |-> CardId, ver |-> 1]))
    /\ isEditing' = FALSE
    /\ isSaving' = FALSE
    /\ lastOp' = Op("edited", CardId, 0)
    /\ UNCHANGED <<isDeleting, creating>>
    /\ CardFrame

\* a failed PUT without the finally block
EditFails_KeepsSaving(err) ==
    /\ Live /\ isSaving
    /\ lastOp' = Op("editFailed", CardId, 0)
    /\ UNCHANGED <<posts, profilePosts, isEditing, isSaving, isDeleting, creating>>
    /\ CardFrame

\* PUT /posts/:id fails: alert, finally
EditFails(err) ==
    /\ Live /\ isSaving
    /\ isSaving' = FALSE
    /\ lastOp' = Op("editFailed", CardId, 0)
    /\ UNCHANGED <<posts, profilePosts, isEditing, isDeleting, creating>>
    /\ CardFrame

\* handleDelete up to the await of axios.delete, or to its end when the user
\* does not confirm or no token is cached
HandleDelete(confirmed) ==
    /\ CardShown /\ ~isDeleting
    /\ IF ~confirmed
       THEN /\ UNCHANGED isDeleting
            /\ lastOp' = Op("deleteCancelled", CardId, 0)
       ELSE IF ~authToken
       THEN /\ UNCHANGED isDeleting
            /\ lastOp' = Op("deleteFailed", CardId, 0)
       ELSE /\ isDeleting' = TRUE
            /\ lastOp' = Op("delete", CardId, 0)
    /\ UNCHANGED <<posts, profilePosts, isEditing, isSaving, creating>>
    /\ CardFrame

\* DELETE /posts/:id answered: onPostDeleted(post._id); the card leaves the
\* list, and a later card of the post starts from its initial state
DeleteSucceeds ==
    /\ Live /\ isDeleting
    /\ SetList(ApplyDeleted(List, CardId))
    /\ isDeleting' = FALSE
    /\ isEditing' = FALSE
    /\ lastOp' = Op("removed", CardId, 0)
    /\ UNCHANGED <<isSaving, creating>>
    /\ CardFrame

\* DELETE /posts/:id fails: alert, setIsDeleting(false)
DeleteFails(err) ==
    /\ Live /\ isDeleting
    /\ isDeleting' = FALSE
    /\ lastOp' = Op("deleteFailed", CardId, 0)
    /\ UNCHANGED <<posts, profilePosts, isEditing, isSaving, creating>>
    /\ CardFrame

\* uploadFile: null without a file and when the upload fails (alert "Upload
\* failed"), otherwise the uploaded media
UploadedMedia(hasFile, uploadOk) == hasFile /\ uploadOk
UploadAlert(hasFile, uploadOk) == hasFile /\ ~uploadOk

\* if (!content.trim() && !uploadedMedia): alert, return
NothingToPost(hasText, hasFile, uploadOk) ==
    ~hasText /\ ~UploadedMedia(hasFile, uploadOk)

\* the steps of handleSubmit: the POST is issued or not, after the alert of a
\* failed upload or without one; n is the number of media URLs of postData
\* (0: mediaType "text", imageUrl and videoUrl null)
SubmitOp(hasText, hasFile, uploadOk) ==
    IF NothingToPost(hasText, hasFile, uploadOk)
    THEN Op(IF UploadAlert(hasFile, uploadOk) THEN "uploadFailedRejected"
            ELSE "submitRejected", 0, 0)
    ELSE Op(IF UploadAlert(hasFile, uploadOk) THEN "uploadFailedPost" ELSE "post",
            0, IF UploadedMedia(hasFile, uploadOk) THEN 1 ELSE 0)

\* a submission that a failed upload ends
HandleSubmit_UploadRequired(hasText, hasFile, uploadOk) ==
    /\ ListShown /\ creating < MaxCalls
    /\ hasText \/ hasFile
    /\ IF NothingToPost(hasText, hasFile, uploadOk) \/ UploadAlert(hasFile, uploadOk)
       THEN /\ UNCHANGED creating
            /\ lastOp' = Op(IF UploadAlert(hasFile, uploadOk) THEN "uploadFailedRejected"
                            ELSE "submitRejected", 0, 0)
       ELSE /\ creating' = creating + 1
            /\ lastOp' = SubmitOp(hasText, hasFile, uploadOk)
    /\ UNCHANGED <<posts, profilePosts, isEditing, isSaving, isDeleting>>
    /\ CardFrame

\* handleSubmit up to the await of axios.post: the upload of the attached
\* file first, and no request without text and without uploaded media
HandleSubmit(hasText, hasFile, uploadOk) ==
    /\ ListShown /\ creating < MaxCalls
    /\ hasText \/ hasFile
    /\ creating' = IF NothingToPost(hasText, hasFile, uploadOk) THEN creating
                   ELSE creating + 1
    /\ lastOp' = SubmitOp(hasText, hasFile, uploadOk)
    /\ UNCHANGED <<posts, profilePosts, isEditing, isSaving, isDeleting>>
    /\ CardFrame

\* POST /posts answered: the form is cleared; neither screen passes onPostCreated
CreateSucceeds ==
    /\ Live /\ creating > 0
    /\ creating' = creating - 1
    /\ lastOp' = Op("posted", 0, 0)
    /\ UNCHANGED <<posts, profilePosts, isEditing, isSaving, isDeleting>>
    /\ CardFrame

\* POST /posts fails: alert
CreateFails(err) ==
    /\ Live /\ creating > 0
    /\ creating' = creating - 1
    /\ lastOp' = Op("postFailed", 0, 0)
    /\ UNCHANGED <<posts, profilePosts, isEditing, isSaving, isDeleting>>
    /\ CardFrame

Init ==
    /\ screen \in {"dashboard", "profile"}
    /\ phase = "constructed"
    /\ location = "app"
    /\ authToken \in BOOLEAN
    /\ redirectPending = FALSE
    /\ firebaseUser = TRUE
    /\ posts = <<>> /\ page = 1 /\ loading = FALSE /\ hasMore = TRUE
    /\ initialLoad = TRUE /\ error = Null /\ retryCount = 0
    /\ isMountedRef = TRUE /\ fetchingRef = FALSE
    /\ requests = <<>> /\ retryTimers = 0
    /\ subscribed = FALSE
    /\ deletedInFlight = {}
    /\ user = Null /\ profilePosts = <<>> /\ profileLoading = TRUE
    /\ profileError = Null /\ isMounted = FALSE /\ stage = "init"
    /\ isEditing = FALSE /\ isSaving = FALSE /\ isDeleting = FALSE /\ creating = 0
    /\ dashboardSocket = 0 /\ profileSocket = 0 /\ connections = {}
    /\ created = 0 /\ handlers = <<>> /\ beforeLogout = {}
    /\ lastOp = NoOp

Next ==
    \/ DashboardMount
    \/ \E i \in DOMAIN requests, newPosts \in ServerPages : FetchSucceeds(i, newPosts)
    \/ \E i \in DOMAIN requests, err \in Errors : FetchFails(i, err)
    \/ LastPostVisible
    \/ HandleRetry
    \/ RetryTimerFires
    \/ \E payload \in Created(Payloads) : DashboardPostCreated(payload)
    \/ \E payload \in Updated(Payloads) : DashboardPostUpdated(payload)
    \/ \E payload \in Payloads : DashboardPostDeleted(payload)
    \/ DashboardUnmount
    \/ ProfileMount
    \/ \E currentUser \in Users : UserSucceeds(currentUser)
    \/ \E userPosts \in UserPages : UserPostsSucceed(userPosts)
    \/ \E err \in Errors : ProfileFetchFails(err)
    \/ \E payload \in Created(Payloads) : ProfilePostCreated(payload)
    \/ \E payload \in Updated(Payloads) : ProfilePostUpdated(payload)
    \/ \E payload \in Payloads : ProfilePostDeleted(payload)
    \/ ProfileUnmount
    \/ RedirectToLogin

Spec == Init /\ [][Next]_vars

\* ------------------------------------------------------------ push scenario
\* The Dashboard after its initial load has returned ScenarioLen posts, and
\* from there push events alone, for the two newest posts of the list and for a
\* newer one.
ScenarioIds == (ScenarioLen - 1)..(ScenarioLen + 1)
ScenarioPayloads == PayloadsOf(ScenarioIds)

ScenarioInit ==
    /\ screen = "dashboard"
    /\ phase = "mounted"
    /\ location = "app"
    /\ authToken = TRUE
    /\ redirectPending = FALSE
    /\ firebaseUser = TRUE
    /\ posts = Window(1, ScenarioLen) /\ page = 1 /\ loading = FALSE
    /\ hasMore = NextHasMore(Window(1, ScenarioLen))
    /\ initialLoad = FALSE /\ error = Null /\ retryCount = 0
    /\ isMountedRef = TRUE /\ fetchingRef = FALSE
    /\ requests = <<>> /\ retryTimers = 0
    /\ subscribed = TRUE
    /\ deletedInFlight = {}
    /\ user = Null /\ profilePosts = <<>> /\ profileLoading = TRUE
    /\ profileError = Null /\ isMounted = FALSE /\ stage = "init"
    /\ isEditing = FALSE /\ isSaving = FALSE /\ isDeleting = FALSE /\ creating = 0
    /\ dashboardSocket = 1 /\ profileSocket = 0 /\ connections = {1}
    /\ created = 1 /\ handlers = <<[conn |-> 1, of |-> "dashboard"]>>
    /\ beforeLogout = {}
    /\ lastOp = Op("replaced", 0, ScenarioLen)

ScenarioNext ==
    \/ \E payload \in Created(ScenarioPayloads) : DashboardPostCreated(payload)
    \/ \E payload \in Updated(ScenarioPayloads) : DashboardPostUpdated(payload)
    \/ \E payload \in ScenarioPayloads : DashboardPostDeleted(payload)

ScenarioSpec == ScenarioInit /\ [][ScenarioNext]_vars

\* ------------------------------------------------------------ retry loop
\* The Dashboard with its pull-fetches and the retry button alone, the
\* counter followed up to MaxAttempts.
RetryInit == Init /\ screen = "dashboard" /\ authToken

RetryNext ==
    \/ DashboardMount
    \/ \E i \in DOMAIN requests, newPosts \in ServerPages : FetchSucceeds(i, newPosts)
    \/ \E i \in DOMAIN requests, err \in Errors : FetchFails(i, err)
    \/ HandleRetryWithin(MaxAttempts, MaxTimers)
    \/ RetryTimerFires
    \/ RedirectToLogin

RetrySpec == RetryInit /\ [][RetryNext]_vars

\* The Dashboard with every step that starts, ends or competes with a
\* pull-fetch, and the push of new posts.  setTimeout: a pending timer of
\* handleRetry fires unless the document is unloaded first.
LiveNext ==
    \/ DashboardMount
    \/ \E i \in DOMAIN requests, newPosts \in ServerPages : FetchSucceeds(i, newPosts)
    \/ \E i \in DOMAIN requests, err \in Errors : FetchFails(i, err)
    \/ LastPostVisible
    \/ HandleRetry
    \/ RetryTimerFires
    \/ \E payload \in Created(Payloads) : DashboardPostCreated(payload)
    \/ DashboardUnmount
    \/ RedirectToLogin

LiveSpec == RetryInit /\ [][LiveNext]_vars /\ WF_vars(RetryTimerFires)

\* ------------------------------------------------------------ requests
\* Each screen with its first load, and the requests of its post card and of
\* its post form, every one with each of its outcomes.
RequestNext ==
    \/ DashboardMount
    \/ \E i \in DOMAIN requests, newPosts \in ServerPages : FetchSucceeds(i, newPosts)
    \/ \E i \in DOMAIN requests, err \in AllErrors : FetchFails(i, err)
    \/ ProfileMount
    \/ \E currentUser \in Users : UserSucceeds(currentUser)
    \/ \E userPosts \in UserPages : UserPostsSucceed(userPosts)
    \/ \E err \in AllErrors : ProfileFetchFails(err)
    \/ StartEdit
    \/ \E content \in Contents : HandleEdit(content)
    \/ EditSucceeds
    \/ \E err \in AllErrors : EditFails(err)
    \/ \E confirmed \in BOOLEAN : HandleDelete(confirmed)
    \/ DeleteSucceeds
    \/ \E err \in AllErrors : DeleteFails(err)
    \/ \E hasText, hasFile, uploadOk \in BOOLEAN : HandleSubmit(hasText, hasFile, uploadOk)
    \/ CreateSucceeds
    \/ \E err \in AllErrors : CreateFails(err)
    \/ RedirectToLogin

RequestSpec == Init /\ [][RequestNext]_vars

\* ------------------------------------------------------------ navigation
\* The screens one after the other in one document, logout and login, with
\* the push channel; the pull-fetches that fail do so with errors other than
\* 401 / 403.
MaxConns == 4

\* a route element is rendered anew: every useState and useRef of the screen
\* starts from its initial value; what the discarded instance still has
\* outstanding is answered with isMountedRef / isMounted false and is dropped
FreshScreen(to) ==
    /\ screen' = to
    /\ phase' = "constructed"
    /\ posts' = <<>> /\ page' = 1 /\ loading' = FALSE /\ hasMore' = TRUE
    /\ initialLoad' = TRUE /\ error' = Null /\ retryCount' = 0
    /\ isMountedRef' = TRUE /\ fetchingRef' = FALSE
    /\ requests' = <<>> /\ retryTimers' = 0
    /\ subscribed' = FALSE
    /\ deletedInFlight' = {}
    /\ user' = Null /\ profilePosts' = <<>> /\ profileLoading' = TRUE
    /\ profileError' = Null /\ isMounted' = FALSE /\ stage' = "init"
    /\ isEditing' = FALSE /\ isSaving' = FALSE /\ isDeleting' = FALSE /\ creating' = 0

\* a Navbar link: the router renders the other protected route
OpenScreen(to) ==
    /\ Live /\ phase = "unmounted" /\ to # screen
    /\ FreshScreen(to)
    /\ lastOp' = Op("open", 0, 0)
    /\ UNCHANGED <<location, authToken, redirectPending, firebaseUser, chanVars>>

\* the Logout button is on the error screen and on the profile itself
LogoutOffered ==
    /\ Live /\ screen = "profile" /\ phase = "mounted"
    /\ ~profileLoading /\ (profileError # Null \/ user # Null)

\* what handleLogout leaves of the instance and of the document's timers
LogoutLeaves ==
    /\ authToken' = FALSE
    /\ location' = "/login"
    /\ phase' = "unmounted"
    /\ isMounted' = FALSE
    /\ subscribed' = FALSE
    /\ stage' = IF stage \in {"users_me", "posts"} THEN "done" ELSE stage
    /\ lastOp' = Op("logout", 0, 0)
    /\ beforeLogout' = 1..created
    /\ firebaseUser' = FALSE
    /\ UNCHANGED <<screen, dashVars, cardVars, user, profilePosts, profileLoading,
                   profileError, created>>

\* a logout that disconnects the socket of Profile.jsx and goes to /login by
\* the router, the document staying loaded
LogoutSucceeds_Navigate ==
    /\ LogoutOffered
    /\ LogoutLeaves
    /\ connections' = connections \ {profileSocket}
    /\ profileSocket' = 0
    /\ handlers' = SelectSeq(handlers, LAMBDA h : h.of # "profile")
    /\ UNCHANGED <<dashboardSocket, redirectPending>>

\* handleLogout, signOut resolved: the token is removed, the socket of
\* Profile.jsx is disconnected and set to null, and window.location.href =
\* "/login" unloads the document
LogoutSucceeds ==
    /\ LogoutOffered
    /\ LogoutLeaves
    /\ redirectPending' = FALSE
    /\ Unload

\* handleLogout, signOut rejected: alert, setIsLoggingOut(false)
LogoutFails ==
    /\ LogoutOffered
    /\ lastOp' = Op("logoutFailed", 0, 0)
    /\ UNCHANGED <<firebaseUser, screen, phase, location, authToken, redirectPending, subscribed,
                   dashVars, profVars, cardVars, chanVars>>

\* the element of the route /login with a signed-in user: <Navigate
\* to="/dashboard" replace />, the Dashboard is rendered.  getAuth keeps the
\* signed-in user across page loads; only signOut ends the session.
LoginRoute ==
    /\ location = "/login" /\ firebaseUser
    /\ created + 2 <= MaxConns
    /\ location' = "app"
    /\ FreshScreen("dashboard")
    /\ lastOp' = Op("route", 0, 0)
    /\ UNCHANGED <<authToken, redirectPending, firebaseUser, chanVars>>

\* handleLogin, signInWithGoogle resolved: the token is cached and
\* navigate("/dashboard") renders the Dashboard; the Login page is the element
\* of /login only without a signed-in user
HandleLogin ==
    /\ location = "/login" /\ ~firebaseUser
    /\ created + 2 <= MaxConns
    /\ authToken' = TRUE
    /\ firebaseUser' = TRUE
    /\ location' = "app"
    /\ FreshScreen("dashboard")
    /\ lastOp' = Op("login", 0, 0)
    /\ UNCHANGED <<redirectPending, chanVars>>

\* the errors that schedule no redirect
PlainErrors == {err \in Errors : ~IsAuthError(err)}

ChannelInit == Init /\ authToken

ChannelNext ==
    \/ DashboardMount
    \/ \E i \in DOMAIN requests, newPosts \in ServerPages : FetchSucceeds(i, newPosts)
    \/ \E i \in DOMAIN requests, err \in PlainErrors : FetchFails(i, err)
    \/ LastPostVisible
    \/ DashboardUnmount
    \/ ProfileMount
    \/ \E currentUser \in Users : UserSucceeds(currentUser)
    \/ \E userPosts \in UserPages : UserPostsSucceed(userPosts)
    \/ \E err \in PlainErrors : ProfileFetchFails(err)
    \/ ProfileUnmount
    \/ \E to \in {"dashboard", "profile"} : OpenScreen(to)
    \/ LogoutSucceeds
    \/ LogoutFails
    \/ HandleLogin

ChannelSpec == ChannelInit /\ [][ChannelNext]_vars

\* ------------------------------------------------------------ session
\* The screens with every outcome of their pull-fetches, the forced logout
\* and what the router renders after it.
SessionNext ==
    \/ DashboardMount
    \/ \E i \in DOMAIN requests, newPosts \in ServerPages : FetchSucceeds(i, newPosts)
    \/ \E i \in DOMAIN requests, err \in Errors : FetchFails(i, err)
    \/ DashboardUnmount
    \/ ProfileMount
    \/ \E currentUser \in Users : UserSucceeds(currentUser)
    \/ \E userPosts \in UserPages : UserPostsSucceed(userPosts)
    \/ \E err \in Errors : ProfileFetchFails(err)
    \/ ProfileUnmount
    \/ \E to \in {"dashboard", "profile"} : OpenScreen(to)
    \/ RedirectToLogin
    \/ LoginRoute
    \/ LogoutSucceeds
    \/ LogoutFails
    \/ HandleLogin

SessionSpec == ChannelInit /\ [][SessionNext]_vars

\* ------------------------------------------------------------ properties

\* C1: whatever the interleaving of page-advance fetches and push events, the
\* Dashboard list holds no identifier twice, in particular after a fetched
\* page has been merged.
C1_NoDuplicateIdentifier == NoDup(posts)

\* a full page was merged into a list that already held all of its posts,
\* below a post that only a push event can have put in front
C1_Witness ==
    /\ lastOp.op = "merged" /\ lastOp.n = PageSize
    /\ Len(posts) = PageSize + 1 /\ posts[1].id = NumIds

\* C2: after a post:created event has been applied for an identifier, the
\* list holds that identifier exactly once, however often the event is
\* repeated, on the Dashboard and (for the user's own posts) on the Profile.
C2_CreatedExactlyOnce ==
    (lastOp.op = "created" /\ lastOp.id # 0) => Count(List, lastOp.id) = 1

\* a post:created was applied for an identifier the list already held (a new
\* one would stand in front)
C2_Witness ==
    /\ lastOp.op = "created" /\ lastOp.id # 0
    /\ HasId(List, lastOp.id) /\ List[1].id # lastOp.id

\* C3: a post deleted by a push event while a page-advance fetch is in flight
\* is not in the list after the page of that fetch has been merged.
C3_DeletedNotResurrected ==
    [][\A i \in DOMAIN requests, newPosts \in ServerPages :
          (FetchSucceeds(i, newPosts) /\ isMountedRef /\ Appends(requests[i]))
          => \A id \in deletedInFlight : ~HasId(posts', id)]_vars

\* C4: at most one GET /posts of a Dashboard instance is outstanding.
C4_OneFetchInFlight == Len(requests) <= 1

\* the retry timer called fetchPosts while the fetch of a page advance was
\* outstanding, and no second request was issued
C4_Witness ==
    /\ lastOp.op = "retryTimer"
    /\ Len(requests) = 1 /\ requests[1].by = "page"

\* C5: a post:updated or post:deleted event for an identifier that is not in
\* the list leaves the list as it is.
C5_AbsentIsNoOp ==
    [][(lastOp'.op \in {"updated", "deleted"} /\ ~HasId(List, lastOp'.id))
          => List' = List]_vars

\* a post:updated was applied for an identifier that a non-empty list does
\* not hold
C5_Witness ==
    /\ lastOp.op = "updated" /\ lastOp.id # 0
    /\ List # <<>> /\ ~HasId(List, lastOp.id)

\* new is old with its one entry for id taken out
IsRemoval(old, new, id) ==
    \E k \in DOMAIN old :
        /\ old[k].id = id
        /\ new = SubSeq(old, 1, k - 1) \o SubSeq(old, k + 1, Len(old))

\* C6: from the list [A,B,C], post:created for a new identifier puts the post
\* at index 0 and keeps the others in order, post:created for an identifier
\* of the list changes nothing, post:deleted removes exactly the entry of the
\* identifier, post:updated puts the new record at the position of the old
\* one and keeps the length and the other entries.
C6_ReferenceOperations ==
    [][\A payload \in ScenarioPayloads : payload.kind = "post" =>
          /\ (DashboardPostCreated(payload) /\ ~HasId(posts, payload.id))
                => posts' = <<PostOf(payload)>> \o posts
          /\ (DashboardPostCreated(payload) /\ HasId(posts, payload.id))
                => posts' = posts
          /\ (DashboardPostDeleted(payload) /\ HasId(posts, payload.id))
                => IsRemoval(posts, posts', payload.id)
          /\ (DashboardPostUpdated(payload) /\ HasId(posts, payload.id))
                => /\ Len(posts') = Len(posts)
                   /\ \A i \in DOMAIN posts :
                         posts'[i] = IF posts[i].id = payload.id
                                     THEN PostOf(payload) ELSE posts[i]]_vars

\* the end of the scenario, [D,A',C]: D pushed in front, B deleted, A edited
\* in place
C6_Witness ==
    /\ posts = <<[id |-> ScenarioLen + 1, ver |-> 0], [id |-> ScenarioLen, ver |-> 1]>>
                \o Window(1, ScenarioLen - 2)
    /\ lastOp = Op("updated", ScenarioLen, 0)

\* C7: a successful fetch that returns fewer than 10 posts leaves hasMore
\* false, and while hasMore is false no step advances the page number or
\* issues the fetch of a page advance.
C7_ShortPageEndsFeed ==
    /\ []((screen = "dashboard" /\ lastOp.op \in {"replaced", "merged"}
             /\ lastOp.n < PageSize) => ~hasMore)
    /\ [][~hasMore =>
             /\ page' <= page
             /\ \A k \in DOMAIN requests' :
                   requests'[k].by = "page" => k \in DOMAIN requests]_vars

\* a short, non-empty first page was applied: the last post is rendered and
\* the page number could still be advanced
C7_Witness ==
    /\ screen = "dashboard" /\ phase = "mounted"
    /\ lastOp.op = "replaced" /\ lastOp.n > 0 /\ lastOp.n < PageSize
    /\ posts # <<>> /\ ~loading /\ ~initialLoad /\ page < MaxPage
    /\ ~hasMore

\* a successful fetch returned a short page and nothing has happened to the
\* fetch state since
ReadyNoMore ==
    /\ screen = "dashboard" /\ phase = "mounted"
    /\ ~initialLoad /\ ~loading /\ error = Null /\ ~hasMore

\* C8: once a successful fetch has returned a short page, hasMore stays
\* false and no further GET /posts is issued.
C8_NoMoreIsTerminal ==
    [][ReadyNoMore => (~hasMore' /\ Len(requests') <= Len(requests))]_vars

\* C9: handling a failed pull-fetch leaves the list as it was, sets an error
\* message and sets loading to false.
C9_FailureKeepsList ==
    [][lastOp'.op = "failed" =>
          /\ List' = List
          /\ IF screen = "dashboard"
             THEN error' # Null /\ ~loading' /\ RetryOffered'
             ELSE profileError' # Null /\ ~profileLoading']_vars

\* the fetch of a page advance failed with the first page in the list
C9_Witness ==
    /\ lastOp.op = "failed" /\ screen = "dashboard"
    /\ Len(posts) >= PageSize /\ error # Null /\ ~loading

\* C10: after a failed page advance the loaded posts stay in the list, and
\* the retry fetches the failed page again and keeps every loaded post.
C10_RetryKeepsLoadedPosts ==
    [][/\ (lastOp'.op = "failed" /\ screen = "dashboard") => posts' = posts
       /\ \A i \in DOMAIN requests, newPosts \in ServerPages :
             (FetchSucceeds(i, newPosts) /\ isMountedRef /\ ~initialLoad
                /\ requests[i].by = "retry")
             => /\ Appends(requests[i])
                /\ \A id \in IdsOf(posts) : HasId(posts', id)]_vars
\* the delays the backoff goes through before it reaches its cap
C11_Schedule == <<1000, 2000, 4000, 8000>>
C11_Delay(n) == IF n < Len(C11_Schedule) THEN C11_Schedule[n + 1] ELSE 10000

\* C11: a retry request with the counter at n sets a timer of
\* min(1000 * 2^n, 10000) ms (1000, 2000, 4000, 8000, then 10000), never more
\* than 10000 ms and never less than the request before it; the request adds
\* exactly one to the counter, and a successful fetch resets the counter to 0.
C11_BackoffSchedule ==
    [][/\ (lastOp'.op = "retry") =>
            (/\ lastOp'.n = C11_Delay(retryCount)
             /\ lastOp'.n <= 10000
             /\ (retryCount > 0 => lastOp'.n >= C11_Delay(retryCount - 1))
             /\ retryCount' = retryCount + 1)
       /\ (lastOp'.op \in {"replaced", "merged"}) => (retryCount' = 0)]_vars

\* a retry was requested with the counter past the point where the cap is
\* reached
C11_Witness ==
    /\ lastOp.op = "retry" /\ lastOp.n = 10000
    /\ retryCount > Len(C11_Schedule) + 1

\* the GET /posts a retry issues: page 1, replacing the list
RetryFetch(req) == req.pageNum = 1 /\ ~req.shouldAppend /\ req.by = "retry"

\* the first retry after the initial load has failed with a network error
C12_RetryRequested ==
    /\ screen = "dashboard" /\ lastOp.op = "retry"
    /\ initialLoad /\ retryCount = 1 /\ error = "network"

\* C12: an initial load that fails with a network error leaves the list
\* empty and shows the error screen; a retry requested then leads to a GET of
\* page 1 that replaces the list, and when that fetch succeeds on the mounted
\* screen the list is exactly the returned page and the error is cleared.
C12_RetryReissuesInitialFetch ==
    /\ [][\A i \in DOMAIN requests :
            /\ (FetchFails(i, "network") /\ isMountedRef /\ requests[i].by = "initial"
                   /\ posts = <<>>)
                  => (posts' = <<>> /\ ErrorScreen')
            /\ \A newPosts \in ServerPages :
                  (FetchSucceeds(i, newPosts) /\ isMountedRef /\ RetryFetch(requests[i]))
                  => (posts' = newPosts /\ error' = Null)]_vars
    /\ C12_RetryRequested ~> (\E i \in DOMAIN requests : RetryFetch(requests[i]))

\* the fetch of a retry has succeeded with a page of posts (a timer of a
\* second request is still pending, so the fetch was not the initial one)
C12_Witness ==
    /\ screen = "dashboard" /\ phase = "mounted"
    /\ lastOp.op = "replaced" /\ lastOp.n > 0
    /\ posts = Window(1, lastOp.n) /\ error = Null /\ retryTimers > 0

\* what the catch block leaves behind on a 401 or 403: no token, the redirect
\* timer of 2000 ms pending, the document still loaded
C13_Scheduled ==
    /\ ~authToken' /\ redirectPending' /\ location' = "app"
    /\ lastOp' = Op("failed", 0, 2000)

\* C13: a GET /posts of the Dashboard, or a GET /users/me or GET /posts of
\* the Profile, that fails with 401 or 403 on the mounted screen removes the
\* token and schedules the redirect to /login 2000 ms later, with the error
\* message set; once the redirect has happened no error message is set.
C13_AuthFailureSchedulesRedirect ==
    /\ [][/\ \A err \in {"http401", "http403"} :
               /\ \A i \in DOMAIN requests :
                     (FetchFails(i, err) /\ isMountedRef)
                     => (C13_Scheduled /\ error' = err)
               /\ (ProfileFetchFails(err) /\ isMounted)
                     => (C13_Scheduled /\ profileError' = err)
          /\ (location = "/login")
                => (error' = error /\ profileError' = profileError)]_vars
    /\ [](location = "/login" => ~authToken)

\* the GET /posts?userId of the Profile has failed with 403
C13_Witness ==
    /\ screen = "profile" /\ user # Null
    /\ lastOp = Op("failed", 0, 2000) /\ profileError = "http403"
    /\ ~authToken /\ redirectPending /\ location = "app"

\* C14: a GET of a screen, or a PUT, DELETE or POST of a card or form, that
\* fails with another status than 401 or 403, with a timeout or with a
\* network error leaves the token where it is and schedules no redirect; the
\* token is removed only by the failure that schedules the redirect.
C14_OnlyAuthFailureRemovesToken ==
    [][/\ \A err \in {"network", "timeout", "http500"} :
            (\/ \E i \in DOMAIN requests : FetchFails(i, err)
             \/ ProfileFetchFails(err)
             \/ EditFails(err) \/ DeleteFails(err) \/ CreateFails(err))
            => /\ authToken' = authToken
               /\ redirectPending' = redirectPending
               /\ location' = location
       /\ (authToken /\ ~authToken')
            => (lastOp' = Op("failed", 0, 2000) /\ ~redirectPending /\ redirectPending')]_vars

\* the PUT of an edit has failed (the token is cached, so the request was
\* sent) and the token is still there
C14_Witness ==
    /\ lastOp.op = "editFailed" /\ isEditing /\ ~isSaving
    /\ authToken /\ ~redirectPending /\ location = "app"

\* a GET /posts of a page advance is issued in this step
C15_AdvanceStarted ==
    /\ Len(requests') > Len(requests)
    /\ requests'[Len(requests')].by = "page"

\* C15: the page number grows, and the fetch of a page advance is issued,
\* only by the step in which the last rendered post becomes visible, on the
\* mounted screen with no pull-fetch outstanding, hasMore true and the first
\* successful load behind it: never before the mount, while loading, or after
\* a failed initial load.
C15_AdvanceOnlyWhenReady ==
    [][(page' > page \/ C15_AdvanceStarted)
          => /\ lastOp'.op = "visible"
             /\ page' = page + 1 /\ C15_AdvanceStarted
             /\ requests'[Len(requests')].pageNum = page'
             /\ phase = "mounted" /\ Len(posts) > 0
             /\ requests = <<>> /\ ~fetchingRef /\ ~loading
             /\ hasMore /\ ~initialLoad]_vars

\* the page was advanced to 2 and the fetch of page 2 is outstanding
C15_Witness ==
    /\ lastOp.op = "visible" /\ page = 2 /\ loading
    /\ requests = <<[pageNum |-> 2, shouldAppend |-> TRUE, by |-> "page"]>>

\* the initial load of the screen has been started and is not yet answered
InitialLoadPending ==
    IF screen = "dashboard" THEN \E i \in DOMAIN requests : requests[i].by = "initial"
    ELSE stage \in {"users_me", "posts"}

\* C16: a push event delivered while the initial load of the screen is
\* outstanding does not change the list of the screen; one delivered later is
\* applied (a post:created for a new identifier puts the post in front).
C16_NoPushBeforeInitialLoad ==
    [][(lastOp'.op \in {"created", "updated", "deleted"})
          => IF InitialLoadPending THEN List' = List
             ELSE (lastOp'.op = "created" /\ lastOp'.id # 0 /\ ~HasId(List, lastOp'.id))
                     => List' = <<[id |-> lastOp'.id, ver |-> 0]>> \o List]_vars

\* a pull-fetch of the screen is answered in this step (the document stays)
C17_Completion ==
    /\ location' = "app"
    /\ IF screen = "dashboard" THEN Len(requests') < Len(requests)
       ELSE stage \in {"users_me", "posts"} /\ stage' # stage

\* C17: a pull-fetch answered, with a result or with an error, after its
\* screen was unmounted changes neither the list nor hasMore, the error, the
\* retry counter, the user or the token, and schedules no redirect.
C17_DroppedAfterUnmount ==
    [][(phase = "unmounted" /\ C17_Completion)
          => UNCHANGED <<posts, profilePosts, hasMore, initialLoad, error, profileError,
                         retryCount, user, authToken, redirectPending>>]_vars

\* the fetch of a page advance was answered after the Dashboard had been
\* unmounted with a full page in its list and the token cached
C17_Witness ==
    /\ screen = "dashboard" /\ phase = "unmounted" /\ lastOp.op = "dropped"
    /\ page > 1 /\ Len(posts) = PageSize /\ requests = <<>>
    /\ authToken /\ ~redirectPending /\ error = Null

\* the screens that are mounted and have run their socket effect: the Dashboard
\* from its mount on, the Profile once its user is set
SubscribedScreens ==
    IF Live /\ phase = "mounted" /\ (screen = "dashboard" \/ user # Null)
    THEN {screen} ELSE {}

\* C18: over any sequence of mounts and unmounts the registered handler
\* triples are exactly those of the mounted subscribed screens, one each, so
\* none remains once its screen is unmounted; and an unmounted Dashboard's
\* observer advances no page.
C18_HandlersMatchMountedScreens ==
    /\ [](/\ Len(handlers) = Cardinality(SubscribedScreens)
          /\ \A i \in DOMAIN handlers : handlers[i].of \in SubscribedScreens)
    /\ [][phase = "unmounted" => lastOp'.op # "visible" /\ page' <= page]_vars

\* the Dashboard and the Profile have both subscribed, and the later of the
\* two has just been unmounted
C18_Witness ==
    /\ lastOp.op = "unmount" /\ phase = "unmounted"
    /\ dashboardSocket # 0 /\ profileSocket # 0
    /\ handlers = <<>>

\* C19: at any time at most one push-channel connection is open, whatever the
\* order in which the Dashboard and the Profile are mounted, and both
\* screens refer to that one connection.
C19_SingleConnection ==
    /\ Cardinality(connections) <= 1
    /\ (dashboardSocket # 0 /\ profileSocket # 0) => dashboardSocket = profileSocket

\* C20: after a successful logout no connection created before it is open,
\* referenced by a module's socket or carrying a handler, so what a screen
\* uses after the next login is a connection created after the logout.
C20_LogoutLeavesNoConnection ==
    /\ connections \cap beforeLogout = {}
    /\ dashboardSocket \notin beforeLogout /\ profileSocket \notin beforeLogout
    /\ \A i \in DOMAIN handlers : handlers[i].conn \notin beforeLogout

\* the Dashboard and the Profile each had a connection when the user logged
\* out, and the Dashboard mounted after the next login uses a third one
C20_Witness ==
    /\ Cardinality(beforeLogout) = 2
    /\ Live /\ screen = "dashboard" /\ phase = "mounted"
    /\ dashboardSocket = 3 /\ connections = {3}
    /\ handlers = <<[conn |-> 3, of |-> "dashboard"]>>

\* a push handler ran on a payload it read no identifier from: null, an object
\* without _id, a bare identifier where a Post is expected, or (Profile)
\* another user's post
NoIdentifierRead ==
    lastOp'.op \in {"created", "updated", "deleted", "threw"} /\ lastOp'.id = 0

\* C21: a push handler that reads no identifier from its payload (null, an
\* object without _id) raises no exception and leaves the list of its screen
\* as it is, on the Dashboard and on the Profile.
C21_MalformedDropped ==
    [][NoIdentifierRead => (lastOp'.op # "threw" /\ List' = List)]_vars

\* C22: for every deletion payload that carries an identifier, the Post and
\* the bare identifier, the Profile handler leaves the list the Dashboard
\* handler would leave.
C22_DeletionShapes ==
    (screen = "profile" /\ subscribed) =>
        \A payload \in {p \in Payloads : p.kind \in {"post", "id"}} :
            ApplyDeleted(profilePosts, ProfileDeletedId(payload))
                = ApplyDeleted(profilePosts, DeletedId(payload))

\* C23: when a file is attached and its upload fails, handleSubmit still
\* issues POST /posts if the text is not empty, as a text post without a media
\* URL, and issues no request if the text is empty.
C23_UploadFailureKeepsText ==
    [][\A hasText \in BOOLEAN :
          HandleSubmit(hasText, TRUE, FALSE)
             => IF hasText
                THEN creating' = creating + 1 /\ lastOp' = Op("uploadFailedPost", 0, 0)
                ELSE creating' = creating /\ lastOp'.op = "uploadFailedRejected"]_vars

\* a POST /posts is outstanding that was issued after the upload had failed
C23_Witness ==
    /\ lastOp = Op("uploadFailedPost", 0, 0)
    /\ creating = 1

\* newest first: the identifiers grow with the creation time
NewestFirst(list) == \A i, j \in DOMAIN list : i < j => list[i].id > list[j].id

\* C24: in every reachable state the list of the feed is ordered newest-first,
\* whatever the order in which the push events are delivered.
C24_NewestFirst == NewestFirst(posts) /\ NewestFirst(profilePosts)

\* a request to the REST API is issued in this step: GET /posts, GET
\* /users/me, GET /posts?userId, PUT, DELETE or POST /posts
RequestIssued ==
    \/ Len(requests') > Len(requests)
    \/ stage' \in {"users_me", "posts"} /\ stage' # stage
    \/ isSaving' /\ ~isSaving
    \/ isDeleting' /\ ~isDeleting
    \/ creating' > creating

\* C25: no request to the REST API is issued while no credential is cached
\* (a request issued then has no credential to carry in its header).
C25_RequestsCarryCredential ==
    [][RequestIssued => authToken]_vars

\* the step before applied post:created for a post that is in the Dashboard
\* list, and this step is not a delete for that post
C26_CreatedStays ==
    /\ screen = "dashboard" /\ lastOp.op = "created" /\ lastOp.id # 0
    /\ HasId(posts, lastOp.id)
    /\ ~(lastOp'.op \in {"deleted", "removed"} /\ lastOp'.id = lastOp.id)

\* C26: a post put in the Dashboard list by post:created stays in the list
\* under every step that is not a delete for it (the completion of the initial
\* load, a page merge, a retry fetch).
C26_CreatedStaysUntilDeleted ==
    [][C26_CreatedStays => HasId(posts', lastOp.id)]_vars

\* C27: at most one timer of handleRetry is pending at a time in a Dashboard
\* instance.
C27_OneRetryPending == retryTimers <= 1

\* C29: a timer of handleRetry that fires after the Dashboard was unmounted
\* issues no pull-fetch and changes no state of the discarded screen.
C29_RetryTimerAfterUnmount ==
    [][(phase = "unmounted" /\ lastOp'.op = "retryTimer")
          => UNCHANGED <<requests, fetchingRef, posts, page, loading, hasMore,
                         initialLoad, error, retryCount>>]_vars

\* the steps of the card that end an edit or a delete without a successful
\* answer: no text or the old text, too long a text, no cached token, the
\* confirmation refused, the request failed
C30_EditEnded == lastOp'.op \in {"editSkipped", "editRejected", "editFailed"}
C30_DeleteEnded == lastOp'.op \in {"deleteCancelled", "deleteFailed"}

\* C30: the steps of a post card change the list of the screen only when PUT
\* or DELETE is answered successfully; every other end of an edit leaves the
\* list and isSaving false, every other end of a delete the list and
\* isDeleting false, and issuing the request leaves the list.
C30_ListChangesOnSuccessOnly ==
    [][/\ C30_EditEnded => (List' = List /\ ~isSaving')
       /\ C30_DeleteEnded => (List' = List /\ ~isDeleting')
       /\ lastOp'.op \in {"startEdit", "put", "delete"} => List' = List
       /\ (lastOp'.op = "edited" /\ phase = "mounted")
             => List' = ApplyUpdated(List, [id |-> CardId, ver |-> 1])
       /\ (lastOp'.op = "removed" /\ phase = "mounted")
             => List' = ApplyDeleted(List, CardId)]_vars

\* PUT /posts/1 has failed with the token cached: the list still holds post 1
\* as it was, the form is still open and Save can be clicked again
C30_Witness ==
    /\ lastOp = Op("editFailed", CardId, 0) /\ authToken
    /\ \E i \in DOMAIN List : List[i] = [id |-> CardId, ver |-> 0]
    /\ isEditing /\ ~isSaving

\* C28: once the forced logout has loaded /login, the app stays on the login
\* screen until the user signs in: the only step that leaves /login is
\* handleLogin.
C28_RedirectEndsOnLogin ==
    [][(location = "/login" /\ location' # "/login") => lastOp'.op = "login"]_vars

=============================================================================
